---- MODULE Spec2Model ----
(***************************************************************************)
(* State machine of the IntegrationAdminApp Lightning web component        *)
(* (force-app/main/default/lwc/integrationAdminApp/integrationAdminApp.js, *)
(* the class that starts at line 312): the three draft collections, the    *)
(* option lists, the active field-mapping context, the spinner and error   *)
(* slots, and the Apex calls in flight.                                    *)
(*                                                                         *)
(* JavaScript runs each handler, and each continuation after an await, to  *)
(* completion; one action is one such run.                                 *)
(***************************************************************************)
EXTENDS Integers, Sequences, FiniteSets, Bags, TLC

(***************************************************************************)
(* Bounds of the model.                                                    *)
(***************************************************************************)
\* rows a draft collection may grow to through addObjectConfig / addFieldMapping
MaxRows == 2
\* context resolutions in flight at the same time
MaxRes == 2
\* persist calls in flight at the same time
MaxCalls == 1
\* values Date.now() moves through
MaxClock == 1

(***************************************************************************)
(* JavaScript values: a type tag and the value.                            *)
(***************************************************************************)
JUndef == <<"undefined", "">>
JNull == <<"null", "">>
JStr(s) == <<"string", s>>
JBool(b) == <<"boolean", b>>
JNum(n) == <<"number", n>>

\* ToBoolean: what `!v`, `v && ...`, `v || ...` and `v ? a : b` test
Truthy(v) ==
    CASE v[1] = "undefined" -> FALSE
      [] v[1] = "null" -> FALSE
      [] v[1] = "string" -> v[2] # ""
      [] v[1] = "boolean" -> v[2]
      [] v[1] = "number" -> v[2] # 0
      [] OTHER -> TRUE

\* ToString of a primitive, as a template literal `${v}` produces it
JToString(v) ==
    CASE v[1] = "string" -> v[2]
      [] v[1] = "number" -> ToString(v[2])
      [] v[1] = "boolean" -> (IF v[2] THEN "true" ELSE "false")
      [] OTHER -> v[1]

\* a primitive is copied by value, anything else by reference
IsPrimitive(v) == v[1] \in {"undefined", "null", "string", "boolean", "number"}

\* no copy at all: the object itself is what the draft holds
NoSpreadShares(obj) == {"this"}

\* { ...obj }: a new object; the paths of obj that the copy still shares with it
SpreadShares(obj) == {f \in DOMAIN obj : ~IsPrimitive(obj[f])}

\* source.map(row => ({ ...row, ... })): a new array of new objects
MapSpreadShares(collection, source) ==
    UNION {{<<collection, i, f>> : f \in SpreadShares(source[i])} : i \in 1..Len(source)}

\* Array.prototype.map
RECURSIVE SeqMap(_, _)
SeqMap(F(_), s) ==
    IF s = << >> THEN << >> ELSE <<F(Head(s))>> \o SeqMap(F, Tail(s))

(***************************************************************************)
(* What the Apex controller may answer (the inputs of the model).          *)
(***************************************************************************)
SystemDTO(name) ==
    [developerName |-> JStr(name), label |-> JStr(name),
     isActive |-> JBool(TRUE), maxRetries |-> JNum(3)]

GetSystemsResults ==
    { << >>,
      <<SystemDTO("CRM"), SystemDTO("BILLING")>> }

ObjectOptionDTO(name) == [label |-> JStr(name), apiName |-> JStr(name)]

GetIntegratableObjectsResults ==
    { << >>,
      <<ObjectOptionDTO("Account"), ObjectOptionDTO("Opportunity")>> }

ObjectConfigDTO(dn, sobj, sys) ==
    [developerName |-> JStr(dn), sObjectName |-> JStr(sobj),
     systemApiName |-> JStr(sys), triggerReason |-> JStr(""),
     isActive |-> JBool(TRUE)]

GetObjectConfigsResults ==
    { << >>,
      <<ObjectConfigDTO("Opp_BILLING", "Opportunity", "BILLING")>>,
      <<ObjectConfigDTO("Opp_BILLING", "Opportunity", "BILLING"),
        ObjectConfigDTO("", "Account", "BILLING")>> }

\* object mappings without a developerName: the rows wiredConfigs keys by
\* Date.now() and Math.random()
GetObjectConfigsKeylessResults ==
    { <<ObjectConfigDTO("Opp_BILLING", "Opportunity", "BILLING")>>,
      <<ObjectConfigDTO("", "Opportunity", "BILLING"),
        ObjectConfigDTO("", "Account", "BILLING")>> }

\* Math.random() of the row identities, as the text a template literal gives
RandomTexts == {"0.25", "0.75"}

(***************************************************************************)
(* Errors an Apex call or a wire may deliver, and what a handler catches.  *)
(*   present   FALSE for undefined / null                                  *)
(*   body      "none" (no body), "object" ({message}) or "array"           *)
(*   messages  the message of the body, or of each entry of the body       *)
(*   text      what JSON.stringify(error) gives                            *)
(***************************************************************************)
NoErrorValue ==
    [present |-> FALSE, body |-> "none", messages |-> << >>, text |-> "undefined"]
BodyMessageError(m) ==
    [present |-> TRUE, body |-> "object", messages |-> <<m>>,
     text |-> "{\"body\":{\"message\":\"" \o m \o "\"}}"]
\* JSON.stringify of the entries of an array body
RECURSIVE EntriesText(_)
EntriesText(ms) ==
    IF ms = << >> THEN ""
    ELSE "{\"message\":\"" \o Head(ms) \o "\"}"
         \o (IF Tail(ms) = << >> THEN "" ELSE ",") \o EntriesText(Tail(ms))
BodyArrayError(ms) ==
    [present |-> TRUE, body |-> "array", messages |-> ms,
     text |-> "{\"body\":[" \o EntriesText(ms) \o "]}"]
OtherError ==
    [present |-> TRUE, body |-> "none", messages |-> << >>,
     text |-> "{\"status\":500}"]
RejectionErrors ==
    { BodyMessageError("Apex failure"), OtherError }

\* the shapes of error a wire or a rejected call may hand over
ErrorShapes ==
    { NoErrorValue,
      BodyMessageError("Apex failure"), BodyMessageError(""),
      BodyArrayError(<<"First", "Second">>), BodyArrayError(<< >>), BodyArrayError(<<"">>),
      OtherError }

\* a normalization that knows nothing of array bodies
extractErrorObjectBodyOnly(error) ==
    IF ~error.present THEN "Unknown error"
    ELSE IF error.body = "object" /\ error.messages # << >> /\ error.messages[1] # ""
        THEN error.messages[1]
    ELSE error.text

\* extractError(error)
extractError(error) ==
    IF ~error.present THEN "Unknown error"
    ELSE IF error.body = "object" /\ error.messages # << >> /\ error.messages[1] # ""
        THEN error.messages[1]
    ELSE IF error.body = "array" /\ error.messages # << >> /\ error.messages[1] # ""
        THEN error.messages[1]
    ELSE error.text

(***************************************************************************)
(* The component's fields, the clock, and the calls in flight.             *)
(***************************************************************************)
VARIABLES
    systems,               \* @track systems
    systemOptions,         \* @track systemOptions
    objectConfigs,         \* @track objectConfigs
    fieldMappings,         \* @track fieldMappings
    availableFields,       \* @track availableFields
    sObjectOptions,        \* @track sObjectOptions
    selectedSObjectName,   \* @track selectedSObjectName
    selectedSystemApiName, \* @track selectedSystemApiName
    activeTab,             \* @track activeTab
    isLoading,             \* @track isLoading
    errorMessage,          \* @track errorMessage
    now,                   \* Date.now()
    resolutions,           \* bag of the handleEditFields runs with a fetch in flight
    calls,                 \* bag of the save handlers that await their persist call
    request,               \* the persist call the last run issued, if it issued one
    settled,               \* the Promise.all the last run saw settle, if it saw one
    failure,               \* the error the last run was handed, if it was handed one
    written                \* the objects the last run wrote in place, or took from its source

vars ==
    <<systems, systemOptions, objectConfigs, fieldMappings, availableFields,
      sObjectOptions, selectedSObjectName, selectedSystemApiName, activeTab,
      isLoading, errorMessage, now, resolutions, calls, request,
      settled, failure, written>>

tier1 == <<systems, systemOptions>>
tier2 == <<objectConfigs, sObjectOptions>>
tier3 == <<fieldMappings, availableFields>>
context == <<selectedSObjectName, selectedSystemApiName>>
ui == <<activeTab, isLoading, errorMessage>>

\* the run settled no context resolution
NotSettled ==
    [status |-> "none", sObjectName |-> JUndef, systemApiName |-> JUndef,
     fields |-> << >>, mappings |-> << >>]

\* the run caught no error
NoFailure == [source |-> "none", error |-> NoErrorValue]

\* the run wrote no object that was there before it, and kept none of its source:
\*   inPlace  <<collection, idx>> of the rows it assigned a field of
\*   shared   <<collection, idx, path>> of the source objects the draft now holds
NoWrite == [inPlace |-> {}, shared |-> {}]

\* the run issued no persist call
NoRequest == [op |-> "none"]

Init ==
    /\ systems = << >>
    /\ systemOptions = << >>
    /\ objectConfigs = << >>
    /\ fieldMappings = << >>
    /\ availableFields = << >>
    /\ sObjectOptions = << >>
    /\ selectedSObjectName = JUndef
    /\ selectedSystemApiName = JUndef
    /\ activeTab = "systems"
    /\ isLoading = FALSE
    /\ errorMessage = JUndef
    /\ now = 0
    /\ resolutions = EmptyBag
    /\ calls = EmptyBag
    /\ request = NoRequest
    /\ settled = NotSettled
    /\ failure = NoFailure
    /\ written = NoWrite

\* the clock moves between two runs of JavaScript
Tick ==
    /\ now < MaxClock
    /\ now' = now + 1
    /\ UNCHANGED <<tier1, tier2, tier3, context, ui, resolutions, calls>>
    /\ request' = NoRequest
    /\ settled' = NotSettled
    /\ failure' = NoFailure
    /\ written' = NoWrite

(***************************************************************************)
(* Wires.                                                                  *)
(***************************************************************************)
SystemClone(sys) == sys
SystemOption(sys) == [label |-> sys.label, value |-> sys.developerName]

\* wiredSystems({ data }) with data an array
wiredSystemsData(data) ==
    /\ systems' = SeqMap(SystemClone, data)
    /\ systemOptions' = SeqMap(SystemOption, systems')
    /\ UNCHANGED <<tier2, tier3, context, ui, now, resolutions, calls>>
    /\ request' = NoRequest
    /\ settled' = NotSettled
    /\ failure' = NoFailure
    /\ written' = [inPlace |-> {}, shared |-> MapSpreadShares("systems", data)]

\* wiredSystems({ error })
wiredSystemsError(error) ==
    /\ error.present
    /\ errorMessage' = JStr(extractError(error))
    /\ UNCHANGED <<tier1, tier2, tier3, context, activeTab, isLoading, now,
                   resolutions, calls>>
    /\ request' = NoRequest
    /\ settled' = NotSettled
    /\ failure' = [source |-> "wiredSystems", error |-> error]
    /\ written' = NoWrite

\* rowId: cfg.developerName || `tmp-obj-${Date.now()}-${Math.random()}`
LoadedRowId(prefix, rows, i, random) ==
    IF Truthy(rows[i].developerName) THEN rows[i].developerName
    ELSE JStr(prefix \o ToString(now) \o "-" \o random[i])

\* { ...cfg, rowId }
WithRowId(dto, rowId) ==
    [f \in DOMAIN dto \cup {"rowId"} |-> IF f = "rowId" THEN rowId ELSE dto[f]]

\* wiredConfigs({ data }); random[i] is what Math.random() gives for row i
wiredConfigsData(data, random) ==
    /\ objectConfigs' =
         [i \in 1..Len(data) |->
            WithRowId(data[i], LoadedRowId("tmp-obj-", data, i, random))]
    /\ UNCHANGED <<tier1, sObjectOptions, tier3, context, ui, now, resolutions, calls>>
    /\ request' = NoRequest
    /\ settled' = NotSettled
    /\ failure' = NoFailure
    /\ written' = [inPlace |-> {}, shared |-> MapSpreadShares("objectConfigs", data)]

\* wiredConfigs({ error })
wiredConfigsError(error) ==
    /\ error.present
    /\ errorMessage' = JStr(extractError(error))
    /\ UNCHANGED <<tier1, tier2, tier3, context, activeTab, isLoading, now,
                   resolutions, calls>>
    /\ request' = NoRequest
    /\ settled' = NotSettled
    /\ failure' = [source |-> "wiredConfigs", error |-> error]
    /\ written' = NoWrite

SObjectOption(o) == [label |-> o.label, value |-> o.apiName]

\* wiredObjects({ data })
wiredObjectsData(data) ==
    /\ sObjectOptions' = SeqMap(SObjectOption, data)
    /\ UNCHANGED <<tier1, objectConfigs, tier3, context, ui, now, resolutions, calls>>
    /\ request' = NoRequest
    /\ settled' = NotSettled
    /\ failure' = NoFailure
    /\ written' = NoWrite

\* wiredObjects({ error })
wiredObjectsError(error) ==
    /\ error.present
    /\ errorMessage' = JStr(extractError(error))
    /\ UNCHANGED <<tier1, tier2, tier3, context, activeTab, isLoading, now,
                   resolutions, calls>>
    /\ request' = NoRequest
    /\ settled' = NotSettled
    /\ failure' = [source |-> "wiredObjects", error |-> error]
    /\ written' = NoWrite

(***************************************************************************)
(* Inline edits.  An input event carries the control it comes from:        *)
(* target.type, target.checked and target.value.                           *)
(***************************************************************************)
\* event.target.type === 'checkbox' ? event.target.checked : event.target.value
EventValue(target) ==
    IF target.type = "checkbox" THEN JBool(target.checked) ELSE target.value

CheckboxTargets ==
    { [type |-> "checkbox", checked |-> b, value |-> JUndef] : b \in BOOLEAN }
\* lightning-input type="toggle": its type is not 'checkbox', and its value is
\* whatever the markup gave it
ToggleTargets ==
    { [type |-> "toggle", checked |-> b, value |-> v] :
        b \in BOOLEAN, v \in {JUndef, JStr("")} }
\* the controls of a boolean field
BooleanTargets == CheckboxTargets \cup ToggleTargets
TextTargets(texts) ==
    { [type |-> "text", checked |-> FALSE, value |-> JStr(t)] : t \in texts }
\* lightning-combobox: the value of the chosen option
ComboboxTargets(options) ==
    { [type |-> "combobox", checked |-> FALSE, value |-> options[i].value] :
        i \in 1..Len(options) }

\* an edit that also keys every row of the table by its position
SetFieldRekeying(rows, idx, field, value) ==
    [i \in 1..Len(rows) |->
       [f \in DOMAIN rows[i] \cup {field} |->
          IF f = "rowId" THEN JStr("row-" \o ToString(i))
          ELSE IF i = idx /\ f = field THEN value ELSE rows[i][f]]]

\* rows[idx][field] = value
SetField(rows, idx, field, value) ==
    [rows EXCEPT ![idx] = [f \in DOMAIN rows[idx] \cup {field} |->
                             IF f = field THEN value ELSE rows[idx][f]]]

\* the controls of one row of the Systems table
SystemTargets(field) ==
    CASE field = "isActive" -> BooleanTargets
      [] field = "maxRetries" ->
           { [type |-> "number", checked |-> FALSE, value |-> JStr("5")] }

\* handleSystemChange(event)
handleSystemChange(idx, field, target) ==
    /\ idx \in 1..Len(systems)
    /\ systems' = SetField(systems, idx, field, EventValue(target))
    /\ UNCHANGED <<systemOptions, tier2, tier3, context, ui, now, resolutions, calls>>
    /\ request' = NoRequest
    /\ settled' = NotSettled
    /\ failure' = NoFailure
    /\ written' = [inPlace |-> {<<"systems", idx>>}, shared |-> {}]

\* the controls of one row of the Object Mappings table
ObjectConfigTargets(field) ==
    CASE field = "sObjectName" -> ComboboxTargets(sObjectOptions)
      [] field = "systemApiName" -> ComboboxTargets(systemOptions)
      [] field = "triggerReason" -> TextTargets({"OPP_STAGE_CONTRACTING"})
      [] field = "isActive" -> BooleanTargets

\* handleObjectConfigChange(event)
handleObjectConfigChange(idx, field, target) ==
    /\ idx \in 1..Len(objectConfigs)
    /\ objectConfigs' = SetField(objectConfigs, idx, field, EventValue(target))
    /\ UNCHANGED <<tier1, sObjectOptions, tier3, context, ui, now, resolutions, calls>>
    /\ request' = NoRequest
    /\ settled' = NotSettled
    /\ failure' = NoFailure
    /\ written' = [inPlace |-> {<<"objectConfigs", idx>>}, shared |-> {}]

\* a default that is a fixed object rather than the first option
FirstOptionValueHardCoded(options) == JStr("Opportunity")

\* options && options.length ? options[0].value : ''
FirstOptionValue(options) ==
    IF Len(options) # 0 THEN options[1].value ELSE JStr("")

\* the newRow of addObjectConfig
NewObjectConfig ==
    [developerName |-> JStr(""),
     sObjectName |-> FirstOptionValue(sObjectOptions),
     systemApiName |-> FirstOptionValue(systemOptions),
     triggerReason |-> JStr(""),
     isActive |-> JBool(TRUE),
     rowId |-> JStr("tmp-obj-" \o ToString(now) \o "-" \o ToString(Len(objectConfigs)))]

\* addObjectConfig()
addObjectConfig ==
    /\ Len(objectConfigs) < MaxRows
    /\ objectConfigs' = objectConfigs \o <<NewObjectConfig>>
    /\ UNCHANGED <<tier1, sObjectOptions, tier3, context, ui, now, resolutions, calls>>
    /\ request' = NoRequest
    /\ settled' = NotSettled
    /\ failure' = NoFailure
    /\ written' = NoWrite

(***************************************************************************)
(* Saves.  A handler runs up to its await, which puts it in `calls`;       *)
(* the settlement of the call runs the rest of the handler.                *)
(***************************************************************************)
\* the argument of saveSystems
SaveSystemsArgs == [systems |-> systems]

\* handleSaveSystems(), up to the await
handleSaveSystems ==
    /\ BagCardinality(calls) < MaxCalls
    /\ isLoading' = TRUE
    /\ errorMessage' = JNull
    /\ calls' = calls (+) SetToBag({"handleSaveSystems"})
    /\ request' = [op |-> "saveSystems", args |-> SaveSystemsArgs]
    /\ UNCHANGED <<tier1, tier2, tier3, context, activeTab, now, resolutions>>
    /\ settled' = NotSettled
    /\ failure' = NoFailure
    /\ written' = NoWrite

\* the argument of saveObjectConfigs
SaveObjectConfigsArgs == [configs |-> objectConfigs]

\* handleSaveObjectConfigs(), up to the await
handleSaveObjectConfigs ==
    /\ BagCardinality(calls) < MaxCalls
    /\ isLoading' = TRUE
    /\ errorMessage' = JNull
    /\ calls' = calls (+) SetToBag({"handleSaveObjectConfigs"})
    /\ request' = [op |-> "saveObjectConfigs", args |-> SaveObjectConfigsArgs]
    /\ UNCHANGED <<tier1, tier2, tier3, context, activeTab, now, resolutions>>
    /\ settled' = NotSettled
    /\ failure' = NoFailure
    /\ written' = NoWrite

\* a save that takes the tables back to empty once the server has accepted them
PersistResolvesResettingDraft(handler) ==
    /\ BagIn(handler, calls)
    /\ calls' = calls (-) SetToBag({handler})
    /\ isLoading' = FALSE
    /\ systems' = << >>
    /\ objectConfigs' = << >>
    /\ fieldMappings' = << >>
    /\ UNCHANGED <<systemOptions, sObjectOptions, availableFields, context, activeTab,
                   errorMessage, now, resolutions>>
    /\ request' = NoRequest
    /\ settled' = NotSettled
    /\ failure' = NoFailure
    /\ written' = NoWrite

\* a persist call resolves: the handler resumes after the await, then finally
PersistResolves(handler) ==
    /\ BagIn(handler, calls)
    /\ calls' = calls (-) SetToBag({handler})
    /\ isLoading' = FALSE
    /\ UNCHANGED <<tier1, tier2, tier3, context, activeTab, errorMessage, now,
                   resolutions>>
    /\ request' = NoRequest
    /\ settled' = NotSettled
    /\ failure' = NoFailure
    /\ written' = NoWrite

\* a handler with no finally block: a rejected save leaves the spinner on
PersistRejectsKeepingBusy(handler, e) ==
    /\ BagIn(handler, calls)
    /\ calls' = calls (-) SetToBag({handler})
    /\ errorMessage' = JStr(extractError(e))
    /\ UNCHANGED <<tier1, tier2, tier3, context, activeTab, isLoading, now, resolutions>>
    /\ request' = NoRequest
    /\ settled' = NotSettled
    /\ failure' = [source |-> handler, error |-> e]
    /\ written' = NoWrite

\* a persist call rejects: catch (e), then finally
PersistRejects(handler, e) ==
    /\ BagIn(handler, calls)
    /\ calls' = calls (-) SetToBag({handler})
    /\ errorMessage' = JStr(extractError(e))
    /\ isLoading' = FALSE
    /\ UNCHANGED <<tier1, tier2, tier3, context, activeTab, now, resolutions>>
    /\ request' = NoRequest
    /\ settled' = NotSettled
    /\ failure' = [source |-> handler, error |-> e]
    /\ written' = NoWrite

(***************************************************************************)
(* Field Mappings tab.                                                     *)
(***************************************************************************)
FieldOptionDTO(label, apiName, dataType) ==
    [label |-> JStr(label), apiName |-> JStr(apiName), dataType |-> JStr(dataType)]

\* what getAvailableFields({ sObjectName }) may resolve to
GetAvailableFieldsResults(sObjectName) ==
    { <<FieldOptionDTO("Amount", "Amount", "Currency")>>,
      <<FieldOptionDTO("Amount", "Amount", "Currency"),
        FieldOptionDTO("Name", "Name", "String")>> }

FieldMapDTO(dn, sObjectName, systemApiName, source, target, dataType) ==
    [developerName |-> JStr(dn), sObjectName |-> sObjectName,
     systemApiName |-> systemApiName, sourceFieldAPI |-> JStr(source),
     targetFieldName |-> JStr(target), isRequired |-> JBool(FALSE),
     dataType |-> JStr(dataType)]

\* what getFieldMappings({ sObjectName, systemApiName }) may resolve to: the
\* mappings stored for the pair
GetFieldMappingsResults(sObjectName, systemApiName) ==
    { << >>,
      <<FieldMapDTO("Map_Amount", sObjectName, systemApiName, "Amount", "amount", "Text"),
        FieldMapDTO("Map_Legacy", sObjectName, systemApiName, "Legacy__c", "legacy",
                    "Legacy")>> }

\* handleEditFields(event), up to the await of Promise.all
handleEditFields(idx) ==
    /\ idx \in 1..Len(objectConfigs)
    /\ BagCardinality(resolutions) < MaxRes
    /\ selectedSObjectName' = objectConfigs[idx].sObjectName
    /\ selectedSystemApiName' = objectConfigs[idx].systemApiName
    /\ activeTab' = "fields"
    /\ isLoading' = TRUE
    /\ errorMessage' = JNull
    /\ resolutions' = resolutions (+) SetToBag({
         [pc |-> "awaiting",
          sObjectName |-> objectConfigs[idx].sObjectName,
          systemApiName |-> objectConfigs[idx].systemApiName,
          fieldsFetch |-> "pending", fields |-> << >>,
          mappingsFetch |-> "pending", mappings |-> << >>]})
    /\ UNCHANGED <<tier1, tier2, tier3, now, calls>>
    /\ request' = NoRequest
    /\ settled' = NotSettled
    /\ failure' = NoFailure
    /\ written' = NoWrite

\* { label: `${f.label} (${f.apiName})`, value: f.apiName }
FieldOption(f) ==
    [label |-> JStr(JToString(f.label) \o " (" \o JToString(f.apiName) \o ")"),
     value |-> f.apiName]

\* a load that builds the row afresh and leaves dataType at the default of a new row
LoadedFieldMappingDefaultType(fm, rowId) ==
    [WithRowId(fm, rowId) EXCEPT !.dataType = JStr("String")]

\* { ...fm, rowId: fm.developerName || `tmp-fm-${Date.now()}-${Math.random()}` }
LoadedFieldMapping(fm, rowId) == WithRowId(fm, rowId)

\* (mappings && mappings.length ? mappings : []).map(...)
LoadedFieldMappings(mappings, random) ==
    [i \in 1..Len(mappings) |->
       LoadedFieldMapping(mappings[i], LoadedRowId("tmp-fm-", mappings, i, random))]

\* a pipeline instead of a join: the handler goes on as soon as the fields are there
JoinPipelined(fieldsFetch, mappingsFetch) ==
    fieldsFetch = "fulfilled"

\* Promise.all([...]) is fulfilled once each of the two promises is
JoinFulfilled(fieldsFetch, mappingsFetch) ==
    fieldsFetch = "fulfilled" /\ mappingsFetch = "fulfilled"

\* a handler that drops the result of a resolution whose context is no longer the
\* active one
ResolutionContinuesUnlessStale(res, fields, mappings, random) ==
    /\ IF /\ res.sObjectName = selectedSObjectName
          /\ res.systemApiName = selectedSystemApiName
       THEN /\ availableFields' = SeqMap(FieldOption, fields)
            /\ fieldMappings' = LoadedFieldMappings(mappings, random)
       ELSE UNCHANGED tier3
    /\ isLoading' = FALSE
    /\ settled' = [status |-> "fulfilled",
                   sObjectName |-> res.sObjectName,
                   systemApiName |-> res.systemApiName,
                   fields |-> fields, mappings |-> mappings]
    /\ failure' = NoFailure
    /\ written' = NoWrite
    /\ UNCHANGED <<tier1, tier2, context, activeTab, errorMessage, now, calls>>
    /\ request' = NoRequest

\* the try block of handleEditFields after the await, then finally
ResolutionContinues(res, fields, mappings, random) ==
    /\ availableFields' = SeqMap(FieldOption, fields)
    /\ fieldMappings' = LoadedFieldMappings(mappings, random)
    /\ isLoading' = FALSE
    /\ settled' = [status |-> "fulfilled",
                   sObjectName |-> res.sObjectName,
                   systemApiName |-> res.systemApiName,
                   fields |-> fields, mappings |-> mappings]
    /\ failure' = NoFailure
    /\ written' = [inPlace |-> {}, shared |-> MapSpreadShares("fieldMappings", mappings)]
    /\ UNCHANGED <<tier1, tier2, context, activeTab, errorMessage, now, calls>>
    /\ request' = NoRequest

\* a catch block that also empties the Field Mappings tab
ResolutionFailsClearingDraft(res, e) ==
    /\ errorMessage' = JStr(extractError(e))
    /\ isLoading' = FALSE
    /\ fieldMappings' = << >>
    /\ availableFields' = << >>
    /\ settled' = [status |-> "rejected",
                   sObjectName |-> res.sObjectName,
                   systemApiName |-> res.systemApiName,
                   fields |-> << >>, mappings |-> << >>]
    /\ failure' = [source |-> "handleEditFields", error |-> e]
    /\ written' = NoWrite
    /\ UNCHANGED <<tier1, tier2, context, activeTab, now, calls>>
    /\ request' = NoRequest

\* catch (e) of handleEditFields, then finally
ResolutionFails(res, e) ==
    /\ errorMessage' = JStr(extractError(e))
    /\ isLoading' = FALSE
    /\ settled' = [status |-> "rejected",
                   sObjectName |-> res.sObjectName,
                   systemApiName |-> res.systemApiName,
                   fields |-> << >>, mappings |-> << >>]
    /\ failure' = [source |-> "handleEditFields", error |-> e]
    /\ written' = NoWrite
    /\ UNCHANGED <<tier1, tier2, tier3, context, activeTab, now, calls>>
    /\ request' = NoRequest

\* a fetch settles and no code runs: Promise.all still waits for the other
\* fetch, or has rejected already
NoContinuation ==
    /\ UNCHANGED <<tier1, tier2, tier3, context, ui, now, calls>>
    /\ request' = NoRequest
    /\ settled' = NotSettled
    /\ failure' = NoFailure
    /\ written' = NoWrite

\* the resolution res has no fetch in flight any more
Finished(res) == resolutions (-) SetToBag({res})

\* the resolution res goes on as next
Becomes(res, next) == (resolutions (-) SetToBag({res})) (+) SetToBag({next})

\* getAvailableFields resolves
getAvailableFieldsResolves(res, fields, random) ==
    /\ BagIn(res, resolutions)
    /\ res.fieldsFetch = "pending"
    /\ IF res.pc = "awaiting"
       THEN IF JoinFulfilled("fulfilled", res.mappingsFetch)
            THEN /\ resolutions' = Finished(res)
                 /\ ResolutionContinues(res, fields, res.mappings, random)
            ELSE /\ resolutions' = Becomes(res, [res EXCEPT !.fieldsFetch = "fulfilled",
                                                            !.fields = fields])
                 /\ NoContinuation
       ELSE /\ resolutions' = Finished(res)
            /\ NoContinuation

\* getFieldMappings resolves
getFieldMappingsResolves(res, mappings, random) ==
    /\ BagIn(res, resolutions)
    /\ res.mappingsFetch = "pending"
    /\ IF res.pc = "awaiting"
       THEN IF JoinFulfilled(res.fieldsFetch, "fulfilled")
            THEN /\ resolutions' = Finished(res)
                 /\ ResolutionContinues(res, res.fields, mappings, random)
            ELSE /\ resolutions' = Becomes(res, [res EXCEPT !.mappingsFetch = "fulfilled",
                                                            !.mappings = mappings])
                 /\ NoContinuation
       ELSE /\ resolutions' = Finished(res)
            /\ NoContinuation

OtherFetch(fetch) == IF fetch = "fieldsFetch" THEN "mappingsFetch" ELSE "fieldsFetch"

\* one of the two fetches rejects: Promise.all rejects with the first rejection
FetchRejects(res, fetch, e) ==
    /\ BagIn(res, resolutions)
    /\ res[fetch] = "pending"
    /\ IF res.pc = "awaiting"
       THEN /\ resolutions' =
                 IF res[OtherFetch(fetch)] = "pending"
                 THEN Becomes(res, [res EXCEPT !.pc = "rejected", ![fetch] = "rejected"])
                 ELSE Finished(res)
            /\ ResolutionFails(res, e)
       ELSE /\ resolutions' = Finished(res)
            /\ NoContinuation

\* the newRow of addFieldMapping
NewFieldMapping ==
    [developerName |-> JStr(""),
     sObjectName |-> selectedSObjectName,
     systemApiName |-> selectedSystemApiName,
     sourceFieldAPI |-> JStr(""),
     targetFieldName |-> JStr(""),
     isRequired |-> JBool(FALSE),
     dataType |-> JStr("String"),
     rowId |-> JStr("tmp-fm-" \o ToString(now) \o "-" \o ToString(Len(fieldMappings)))]

\* addFieldMapping()
addFieldMapping ==
    /\ Truthy(selectedSObjectName) /\ Truthy(selectedSystemApiName)
    /\ Len(fieldMappings) < MaxRows
    /\ fieldMappings' = fieldMappings \o <<NewFieldMapping>>
    /\ UNCHANGED <<tier1, tier2, availableFields, context, ui, now, resolutions, calls>>
    /\ request' = NoRequest
    /\ settled' = NotSettled
    /\ failure' = NoFailure
    /\ written' = NoWrite

\* the controls of one row of the Field Mappings table
FieldMappingTargets(field) ==
    CASE field = "sourceFieldAPI" -> ComboboxTargets(availableFields)
      [] field = "targetFieldName" -> TextTargets({"amount"})
      [] field = "isRequired" -> BooleanTargets

\* handleFieldMappingChange(event)
handleFieldMappingChange(idx, field, target) ==
    /\ idx \in 1..Len(fieldMappings)
    /\ fieldMappings' = SetField(fieldMappings, idx, field, EventValue(target))
    /\ UNCHANGED <<tier1, tier2, availableFields, context, ui, now, resolutions, calls>>
    /\ request' = NoRequest
    /\ settled' = NotSettled
    /\ failure' = NoFailure
    /\ written' = [inPlace |-> {<<"fieldMappings", idx>>}, shared |-> {}]

\* the argument of saveFieldMappings
SaveFieldMappingsArgs ==
    [sObjectName |-> selectedSObjectName,
     systemApiName |-> selectedSystemApiName,
     mappings |-> fieldMappings]

\* handleSaveFieldMappings(), up to the await
handleSaveFieldMappings ==
    /\ Truthy(selectedSObjectName) /\ Truthy(selectedSystemApiName)
    /\ BagCardinality(calls) < MaxCalls
    /\ isLoading' = TRUE
    /\ errorMessage' = JNull
    /\ calls' = calls (+) SetToBag({"handleSaveFieldMappings"})
    /\ request' = [op |-> "saveFieldMappings", args |-> SaveFieldMappingsArgs]
    /\ UNCHANGED <<tier1, tier2, tier3, context, activeTab, now, resolutions>>
    /\ settled' = NotSettled
    /\ failure' = NoFailure
    /\ written' = NoWrite

\* handleTabChange(event)
handleTabChange(tab) ==
    /\ activeTab' = tab
    /\ UNCHANGED <<tier1, tier2, tier3, context, isLoading, errorMessage, now,
                   resolutions, calls>>
    /\ request' = NoRequest
    /\ settled' = NotSettled
    /\ failure' = NoFailure
    /\ written' = NoWrite

(***************************************************************************)
(* Specifications.                                                         *)
(***************************************************************************)
Tabs == {"systems", "mappings", "fields"}
SaveHandlers == {"handleSaveSystems", "handleSaveObjectConfigs", "handleSaveFieldMappings"}
WireErrors == RejectionErrors
ThrownErrors == RejectionErrors
\* one Math.random() for each row that has no developerName
RandomFor(rows) ==
    [{i \in 1..Len(rows) : ~Truthy(rows[i].developerName)} -> RandomTexts]

\* the three wires deliver data or an error
WiresNext ==
    \/ \E data \in GetSystemsResults : wiredSystemsData(data)
    \/ \E e \in WireErrors : wiredSystemsError(e)
    \/ \E data \in GetObjectConfigsResults :
         \E random \in RandomFor(data) : wiredConfigsData(data, random)
    \/ \E e \in WireErrors : wiredConfigsError(e)
    \/ \E data \in GetIntegratableObjectsResults : wiredObjectsData(data)
    \/ \E e \in WireErrors : wiredObjectsError(e)

\* inline edits of the three tables, and the two Add buttons
EditsNext ==
    \/ \E idx \in 1..MaxRows, field \in {"isActive", "maxRetries"} :
         \E target \in SystemTargets(field) : handleSystemChange(idx, field, target)
    \/ \E idx \in 1..MaxRows,
          field \in {"sObjectName", "systemApiName", "triggerReason", "isActive"} :
         \E target \in ObjectConfigTargets(field) :
            handleObjectConfigChange(idx, field, target)
    \/ addObjectConfig
    \/ addFieldMapping
    \/ \E idx \in 1..MaxRows,
          field \in {"sourceFieldAPI", "targetFieldName", "isRequired"} :
         \E target \in FieldMappingTargets(field) :
            handleFieldMappingChange(idx, field, target)

\* Edit Fields, and its two fetches resolving
ResolutionNext ==
    \/ \E idx \in 1..MaxRows : handleEditFields(idx)
    \/ \E res \in BagToSet(resolutions) :
         \E fields \in GetAvailableFieldsResults(res.sObjectName) :
            \E random \in RandomFor(res.mappings) :
               getAvailableFieldsResolves(res, fields, random)
    \/ \E res \in BagToSet(resolutions) :
         \E mappings \in GetFieldMappingsResults(res.sObjectName, res.systemApiName) :
            \E random \in RandomFor(mappings) :
               getFieldMappingsResolves(res, mappings, random)

\* one of the two fetches rejecting
RejectionNext ==
    \E res \in BagToSet(resolutions), fetch \in {"fieldsFetch", "mappingsFetch"},
       e \in ThrownErrors : FetchRejects(res, fetch, e)

\* the three Save buttons, and the settlement of the persist calls
SavesNext ==
    \/ handleSaveSystems
    \/ handleSaveObjectConfigs
    \/ handleSaveFieldMappings
    \/ \E handler \in SaveHandlers : PersistResolves(handler)
    \/ \E handler \in SaveHandlers, e \in ThrownErrors : PersistRejects(handler, e)

Next ==
    \/ Tick
    \/ \E tab \in Tabs : handleTabChange(tab)
    \/ WiresNext
    \/ EditsNext
    \/ ResolutionNext
    \/ RejectionNext
    \/ SavesNext

Spec == Init /\ [][Next]_vars

\* the context resolution, opened from the object mappings the wire delivers
ResolveNext ==
    \/ \E data \in GetObjectConfigsResults :
         \E random \in RandomFor(data) : wiredConfigsData(data, random)
    \/ ResolutionNext
    \/ RejectionNext

SpecResolve == Init /\ [][ResolveNext]_vars

\* loading: the wires and the context resolution
LoadNext ==
    \/ WiresNext
    \/ ResolutionNext
    \/ RejectionNext

SpecLoad == Init /\ [][LoadNext]_vars

\* saving what was loaded
SaveNext ==
    \/ \E data \in GetSystemsResults : wiredSystemsData(data)
    \/ \E data \in GetObjectConfigsResults :
         \E random \in RandomFor(data) : wiredConfigsData(data, random)
    \/ ResolutionNext
    \/ SavesNext

SpecSave == Init /\ [][SaveNext]_vars

\* the Object Mappings tab: its wires, its rows, its Save button
MappingsNext ==
    \/ \E data \in GetSystemsResults : wiredSystemsData(data)
    \/ \E data \in GetObjectConfigsResults :
         \E random \in RandomFor(data) : wiredConfigsData(data, random)
    \/ \E data \in GetIntegratableObjectsResults : wiredObjectsData(data)
    \/ \E idx \in 1..MaxRows, field \in {"sObjectName", "systemApiName"} :
         \E target \in ObjectConfigTargets(field) :
            handleObjectConfigChange(idx, field, target)
    \/ addObjectConfig
    \/ handleSaveObjectConfigs
    \/ \E handler \in SaveHandlers : PersistResolves(handler)
    \/ \E handler \in SaveHandlers, e \in ThrownErrors : PersistRejects(handler, e)

SpecMappings == Init /\ [][MappingsNext]_vars

\* the Field Mappings tab: the context resolution, its rows, its Save button
FieldsNext ==
    \/ \E data \in GetObjectConfigsResults :
         \E random \in RandomFor(data) : wiredConfigsData(data, random)
    \/ ResolutionNext
    \/ addFieldMapping
    \/ \E idx \in 1..MaxRows, field \in {"sourceFieldAPI"} :
         \E target \in FieldMappingTargets(field) :
            handleFieldMappingChange(idx, field, target)
    \/ handleSaveFieldMappings
    \/ \E handler \in SaveHandlers : PersistResolves(handler)

SpecFields == Init /\ [][FieldsNext]_vars

\* the Systems tab: its wire, its rows, its Save button
SystemsNext ==
    \/ \E data \in GetSystemsResults : wiredSystemsData(data)
    \/ \E idx \in 1..MaxRows, field \in {"isActive", "maxRetries"} :
         \E target \in SystemTargets(field) : handleSystemChange(idx, field, target)
    \/ handleSaveSystems
    \/ \E handler \in SaveHandlers : PersistResolves(handler)
    \/ \E handler \in SaveHandlers, e \in ThrownErrors : PersistRejects(handler, e)

SpecSystems == Init /\ [][SystemsNext]_vars

\* the rows of the two lower tables: loaded with and without a key, added, edited
RowsNext ==
    \/ \E data \in GetObjectConfigsKeylessResults :
         \E random \in RandomFor(data) : wiredConfigsData(data, random)
    \/ addObjectConfig
    \/ \E idx \in 1..MaxRows, field \in {"triggerReason"} :
         \E target \in ObjectConfigTargets(field) :
            handleObjectConfigChange(idx, field, target)
    \/ ResolutionNext
    \/ addFieldMapping

SpecRows == Init /\ [][RowsNext]_vars

\* every lookup and every save, failing with every shape of error
ErrorsNext ==
    \/ \E data \in GetObjectConfigsResults :
         \E random \in RandomFor(data) : wiredConfigsData(data, random)
    \/ \E e \in ErrorShapes : wiredSystemsError(e)
    \/ \E e \in ErrorShapes : wiredConfigsError(e)
    \/ \E e \in ErrorShapes : wiredObjectsError(e)
    \/ \E idx \in 1..MaxRows : handleEditFields(idx)
    \/ \E res \in BagToSet(resolutions), fetch \in {"fieldsFetch", "mappingsFetch"},
          e \in ErrorShapes : FetchRejects(res, fetch, e)
    \/ handleSaveSystems
    \/ handleSaveObjectConfigs
    \/ handleSaveFieldMappings
    \/ \E handler \in SaveHandlers, e \in ErrorShapes : PersistRejects(handler, e)

SpecErrors == Init /\ [][ErrorsNext]_vars

\* the operations that show the spinner: a context resolution and a save
BusyNext ==
    \/ \E data \in GetObjectConfigsResults :
         \E random \in RandomFor(data) : wiredConfigsData(data, random)
    \/ ResolutionNext
    \/ RejectionNext
    \/ handleSaveObjectConfigs
    \/ \E handler \in SaveHandlers : PersistResolves(handler)
    \/ \E handler \in SaveHandlers, e \in ThrownErrors : PersistRejects(handler, e)

\* an Apex call in flight settles: it resolves or it rejects
Settles ==
    \/ \E res \in BagToSet(resolutions) :
         \E fields \in GetAvailableFieldsResults(res.sObjectName) :
            \E random \in RandomFor(res.mappings) :
               getAvailableFieldsResolves(res, fields, random)
    \/ \E res \in BagToSet(resolutions) :
         \E mappings \in GetFieldMappingsResults(res.sObjectName, res.systemApiName) :
            \E random \in RandomFor(mappings) :
               getFieldMappingsResolves(res, mappings, random)
    \/ RejectionNext
    \/ \E handler \in SaveHandlers : PersistResolves(handler)
    \/ \E handler \in SaveHandlers, e \in ThrownErrors : PersistRejects(handler, e)

\* the server answers every call, and the event loop runs the continuation of
\* every settled promise
SpecBusy == Init /\ [][BusyNext]_vars /\ WF_vars(Settles)

\* inline edits and Add Row in the two lower tables, while the server is silent
EditingNext ==
    \/ \E data \in GetObjectConfigsResults :
         \E random \in RandomFor(data) : wiredConfigsData(data, random)
    \/ addObjectConfig
    \/ \E idx \in 1..MaxRows, field \in {"triggerReason"} :
         \E target \in ObjectConfigTargets(field) :
            handleObjectConfigChange(idx, field, target)
    \/ \E idx \in 1..MaxRows : handleEditFields(idx)
    \/ addFieldMapping
    \/ \E idx \in 1..MaxRows, field \in {"targetFieldName"} :
         \E target \in FieldMappingTargets(field) :
            handleFieldMappingChange(idx, field, target)

SpecEditing == Init /\ [][EditingNext]_vars

\* the boolean controls of the two lower tables, while the server is silent
ControlsNext ==
    \/ \E data \in GetObjectConfigsResults :
         \E random \in RandomFor(data) : wiredConfigsData(data, random)
    \/ \E idx \in 1..MaxRows, field \in {"isActive"} :
         \E target \in ObjectConfigTargets(field) :
            handleObjectConfigChange(idx, field, target)
    \/ \E idx \in 1..MaxRows : handleEditFields(idx)
    \/ addFieldMapping
    \/ \E idx \in 1..MaxRows, field \in {"isRequired"} :
         \E target \in FieldMappingTargets(field) :
            handleFieldMappingChange(idx, field, target)

SpecControls == Init /\ [][ControlsNext]_vars

(***************************************************************************)
(* Properties.                                                             *)
(***************************************************************************)
\* the Object Rule validator of the specification: two rows with the same
\* non-empty (sObjectName, systemApiName)
DuplicateObjectRule(rows) ==
    \E i, j \in 1..Len(rows) :
       /\ i < j
       /\ Truthy(rows[i].sObjectName) /\ Truthy(rows[i].systemApiName)
       /\ rows[i].sObjectName = rows[j].sObjectName
       /\ rows[i].systemApiName = rows[j].systemApiName

\* the Field Mapping validator of the specification: two rows with the same
\* non-empty sourceFieldAPI
DuplicateSourceField(rows) ==
    \E i, j \in 1..Len(rows) :
       /\ i < j
       /\ Truthy(rows[i].sourceFieldAPI)
       /\ rows[i].sourceFieldAPI = rows[j].sourceFieldAPI

\* the describe result has an entry for the field
Described(fields, apiName) ==
    \E k \in 1..Len(fields) : fields[k].apiName = apiName

\* C1: from a draft with two object mappings of the same non-empty (object, system)
\* pair, no run issues saveObjectConfigs.
C1_DuplicateObjectRuleNotSaved ==
    [][DuplicateObjectRule(objectConfigs) => request'.op # "saveObjectConfigs"]_vars

\* C2: from a draft with two field mappings of the same non-empty sourceFieldAPI,
\* no run issues saveFieldMappings.
C2_DuplicateSourceFieldNotSaved ==
    [][DuplicateSourceField(fieldMappings) => request'.op # "saveFieldMappings"]_vars

\* C3: right after a context resolution has succeeded, every row whose
\* sourceFieldAPI is described has the described dataType.
C3_DescribedTypeWins ==
    settled.status = "fulfilled" =>
       \A i \in 1..Len(fieldMappings), k \in 1..Len(settled.fields) :
          fieldMappings[i].sourceFieldAPI = settled.fields[k].apiName =>
             fieldMappings[i].dataType = settled.fields[k].dataType

\* C4: right after a context resolution has succeeded, every row whose
\* sourceFieldAPI is not described has the dataType the fetched mapping stored.
C4_StoredTypeIsFallback ==
    settled.status = "fulfilled" =>
       /\ Len(fieldMappings) = Len(settled.mappings)
       /\ \A i \in 1..Len(fieldMappings) :
             ~Described(settled.fields, fieldMappings[i].sourceFieldAPI) =>
                fieldMappings[i].dataType = settled.mappings[i].dataType

\* a resolution has just loaded a row of a field that is not described any more
C4_Witness ==
    /\ settled.status = "fulfilled"
    /\ \E i \in 1..Len(fieldMappings) :
          /\ ~Described(settled.fields, fieldMappings[i].sourceFieldAPI)
          /\ fieldMappings[i].dataType = JStr("Legacy")

\* C5: the active context changes only in the run in which both fetches of a
\* resolution have succeeded.
C5_ContextSwitchesOnSuccessOnly ==
    [][context' # context => settled'.status = "fulfilled"]_vars

Lookups == {"wiredSystems", "wiredConfigs", "wiredObjects", "handleEditFields"}

\* C6: a run that is handed the error of a lookup leaves the six collections as
\* they were and puts the normalized error in errorMessage.
C6_FailedLookupKeepsCollections ==
    [][failure'.source \in Lookups =>
          /\ UNCHANGED <<systems, systemOptions, objectConfigs, sObjectOptions,
                         fieldMappings, availableFields>>
          /\ errorMessage' = JStr(extractError(failure'.error))]_vars

\* a resolution has just failed and the rows and fields of the resolution before
\* it are still there
C6_Witness ==
    /\ failure.source = "handleEditFields"
    /\ fieldMappings # << >>
    /\ availableFields # << >>
    /\ systems # << >>

\* the run that joins the two fetches of the resolution res: one was fulfilled before,
\* the other is fulfilled now, and both collections are set from the two results
Joins(res) ==
    /\ res.pc = "awaiting"
    /\ resolutions' = resolutions (-) SetToBag({res})
    /\ settled'.status = "fulfilled"
    /\ \/ /\ res.fieldsFetch = "fulfilled"
          /\ res.mappingsFetch = "pending"
          /\ settled'.fields = res.fields
       \/ /\ res.mappingsFetch = "fulfilled"
          /\ res.fieldsFetch = "pending"
          /\ settled'.mappings = res.mappings
    /\ availableFields' = SeqMap(FieldOption, settled'.fields)
    /\ \E random \in RandomFor(settled'.mappings) :
          fieldMappings' = LoadedFieldMappings(settled'.mappings, random)

\* C7: availableFields and fieldMappings change only together, in the run that
\* joins the two fetches of one resolution, whichever fetch came first.
C7_FetchesJoinedBeforeMutation ==
    [][(availableFields' # availableFields \/ fieldMappings' # fieldMappings
          \/ settled'.status = "fulfilled")
       => \E res \in BagToSet(resolutions) : Joins(res)]_vars

\* a resolution has just joined its two fetches while another is in flight
C7_Witness ==
    /\ settled.status = "fulfilled"
    /\ availableFields # << >>
    /\ fieldMappings # << >>
    /\ \E res \in BagToSet(resolutions) : res.pc = "awaiting"

\* C8: a run that issues a persist call, and a run in which a persist call settles,
\* leave the three drafts and the active context as they were.
C8_SaveLeavesDraft ==
    [][(request'.op # "none" \/ BagCardinality(calls') < BagCardinality(calls)) =>
          UNCHANGED <<systems, objectConfigs, fieldMappings, selectedSObjectName,
                      selectedSystemApiName>>]_vars

\* a save of loaded field mappings has just been rejected
C8_Witness ==
    /\ failure.source = "handleSaveFieldMappings"
    /\ systems # << >>
    /\ objectConfigs # << >>
    /\ fieldMappings # << >>

\* C9: no row of the argument of saveObjectConfigs or saveFieldMappings has a rowId.
C9_NoRowIdInPayload ==
    /\ request.op = "saveObjectConfigs" =>
          \A i \in 1..Len(request.args.configs) :
             "rowId" \notin DOMAIN request.args.configs[i]
    /\ request.op = "saveFieldMappings" =>
          \A i \in 1..Len(request.args.mappings) :
             "rowId" \notin DOMAIN request.args.mappings[i]

\* the resolutions whose handler is at its await
Awaiting(bag) ==
    BagCardinality(bag) - BagCardinality([res \in {x \in BagToSet(bag) : x.pc # "awaiting"}
                                            |-> CopiesIn(res, bag)])

\* C10: a resolution in flight is not cancelled by a later one: it leaves the await
\* only by the settlement of its own fetches, a new resolution leaves those in
\* flight as they are, and when a resolution is fulfilled the two collections are
\* its results, whatever the active context and whatever else is in flight.
C10_LastSettledWins ==
    [][/\ Awaiting(resolutions') < Awaiting(resolutions) => settled'.status # "none"
       /\ BagCardinality(resolutions') > BagCardinality(resolutions) =>
             resolutions \sqsubseteq resolutions'
       /\ settled'.status = "fulfilled" =>
             /\ availableFields' = SeqMap(FieldOption, settled'.fields)
             /\ \E random \in RandomFor(settled'.mappings) :
                   fieldMappings' = LoadedFieldMappings(settled'.mappings, random)]_vars

\* the resolution started first has settled last: its rows are in the table while
\* the active context is that of the resolution started after it
C10_Witness ==
    /\ settled.status = "fulfilled"
    /\ settled.sObjectName # selectedSObjectName
    /\ fieldMappings # << >>
    /\ fieldMappings[1].sObjectName = settled.sObjectName
    /\ resolutions = EmptyBag

\* the rows that were in the table before the step have the rowId they had
RowIdsKept(before, after) ==
    /\ Len(after) >= Len(before)
    /\ \A i \in 1..Len(before) : after[i].rowId = before[i].rowId

\* C11: an inline edit of one table and an Add Row of one table leave the rowId of
\* every row that was already in that table as it was.
C11_RowIdStable ==
    [][/\ (\/ addObjectConfig
           \/ \E idx \in 1..MaxRows, target \in ObjectConfigTargets("triggerReason") :
                 handleObjectConfigChange(idx, "triggerReason", target))
          => RowIdsKept(objectConfigs, objectConfigs')
       /\ (\/ addFieldMapping
           \/ \E idx \in 1..MaxRows, target \in FieldMappingTargets("targetFieldName") :
                 handleFieldMappingChange(idx, "targetFieldName", target))
          => RowIdsKept(fieldMappings, fieldMappings')]_vars

\* the first row of each table has just been, or has been, edited while the second
\* row is one that the Add button created
C11_Witness ==
    /\ written.inPlace = {<<"fieldMappings", 1>>}
    /\ Len(fieldMappings) = 2
    /\ fieldMappings[1].targetFieldName = JStr("amount")
    /\ fieldMappings[2].rowId = JStr("tmp-fm-0-1")
    /\ Len(objectConfigs) = 2
    /\ objectConfigs[1].triggerReason = JStr("OPP_STAGE_CONTRACTING")
    /\ objectConfigs[2].rowId = JStr("tmp-obj-0-1")

\* C12: no run leaves in a draft collection a row, or a container inside a row,
\* that belongs to the sequence the collection was loaded from.
C12_LoadSharesNothing ==
    written.shared = {}

\* the three tables are loaded, the last of them just now
C12_Witness ==
    /\ settled.status = "fulfilled"
    /\ fieldMappings # << >>
    /\ objectConfigs # << >>
    /\ systems # << >>
    /\ written.shared = {}

\* C13: addObjectConfig appends one row, active, with no developerName and no
\* triggerReason, whose object and system are the value of the first option of
\* their list, or '' when the list is empty; the rows before it stay as they were.
C13_AddObjectConfigDefaults ==
    [][addObjectConfig =>
          /\ Len(objectConfigs') = Len(objectConfigs) + 1
          /\ SubSeq(objectConfigs', 1, Len(objectConfigs)) = objectConfigs
          /\ LET row == objectConfigs'[Len(objectConfigs')] IN
                /\ row.isActive = JBool(TRUE)
                /\ row.developerName = JStr("")
                /\ row.triggerReason = JStr("")
                /\ row.sObjectName =
                      (IF sObjectOptions = << >> THEN JStr("")
                       ELSE sObjectOptions[1].value)
                /\ row.systemApiName =
                      (IF systemOptions = << >> THEN JStr("")
                       ELSE systemOptions[1].value)]_vars

\* a row added before any option was loaded, then a row added after
C13_Witness ==
    /\ Len(objectConfigs) = 2
    /\ objectConfigs[1].rowId = JStr("tmp-obj-0-0")
    /\ objectConfigs[1].sObjectName = JStr("")
    /\ objectConfigs[1].systemApiName = JStr("")
    /\ objectConfigs[2].rowId = JStr("tmp-obj-0-1")
    /\ objectConfigs[2].sObjectName = JStr("Account")
    /\ objectConfigs[2].systemApiName = JStr("CRM")
    /\ objectConfigs[2].isActive = JBool(TRUE)

\* the one string an error is shown as: its message, the message of its first
\* entry, its serialization, or 'Unknown error' when there is no error
UserFacing(error) ==
    CASE ~error.present -> "Unknown error"
      [] error.present /\ error.body = "object" /\ error.messages # <<"">> ->
           error.messages[1]
      [] error.present /\ error.body = "array" /\ error.messages # << >>
            /\ Head(error.messages) # "" -> Head(error.messages)
      [] OTHER -> error.text

\* C14: a persist call or a fetch that rejects is caught by the handler that awaits
\* it, and every error a handler or a wire is handed ends in errorMessage as the one
\* string of its shape.
C14_ErrorsNormalized ==
    [][/\ BagCardinality(calls') < BagCardinality(calls) =>
             failure'.source \in SaveHandlers
       /\ Awaiting(resolutions') < Awaiting(resolutions) =>
             failure'.source = "handleEditFields"
       /\ failure'.source # "none" =>
             errorMessage' = JStr(UserFacing(failure'.error))]_vars

\* a save has just been rejected with a sequence of two messages
C14_Witness ==
    /\ failure.source = "handleSaveObjectConfigs"
    /\ failure.error = BodyArrayError(<<"First", "Second">>)
    /\ errorMessage = JStr("First")

\* no two rows of the table have the same rowId
DistinctRowIds(rows) ==
    \A i, j \in 1..Len(rows) : i # j => rows[i].rowId # rows[j].rowId

\* C15: in every state, the rows of objectConfigs have pairwise distinct rowIds,
\* and so have the rows of fieldMappings.
C15_RowIdsDistinct ==
    /\ DistinctRowIds(objectConfigs)
    /\ DistinctRowIds(fieldMappings)

\* C16: no run assigns a field of a row object that was in a table before the run:
\* an edit puts a new row in a new collection.
C16_EditInstallsNewCollection ==
    [][written'.inPlace = {}]_vars

\* C17: when the Source Field of a row is set to a field that the describe of the
\* active object lists, the row's dataType becomes the dataType the describe gives
\* for that field.
C17_SourceFieldChangeSetsType ==
    [][\A idx \in 1..MaxRows, target \in FieldMappingTargets("sourceFieldAPI") :
          handleFieldMappingChange(idx, "sourceFieldAPI", target) =>
             \A fields \in GetAvailableFieldsResults(selectedSObjectName) :
                \A k \in 1..Len(fields) :
                   fields[k].apiName = target.value =>
                      fieldMappings'[idx].dataType = fields[k].dataType]_vars

\* the maxRetries of every row is a number, and a non-negative integer
IntegerRetries(rows) ==
    \A i \in 1..Len(rows) :
       /\ rows[i].maxRetries[1] = "number"
       /\ rows[i].maxRetries[2] \in Nat

\* C18: in every state the maxRetries of every row of systems is a non-negative
\* integer, and so is the maxRetries of every row handed to saveSystems.
C18_MaxRetriesIsInteger ==
    /\ IntegerRetries(systems)
    /\ request.op = "saveSystems" => IntegerRetries(request.args.systems)

\* C19: an edit of a boolean field by a checkbox or by a toggle stores the checked
\* state of the control, a boolean, in the row.
C19_ToggleIsCheckbox ==
    [][\A idx \in 1..MaxRows, target \in BooleanTargets :
          /\ handleObjectConfigChange(idx, "isActive", target) =>
                objectConfigs'[idx].isActive = JBool(target.checked)
          /\ handleFieldMappingChange(idx, "isRequired", target) =>
                fieldMappings'[idx].isRequired = JBool(target.checked)]_vars

\* C20: the run that issues a persist call or the two fetches of a resolution
\* leaves isLoading true; the run in which a save or a resolution settles leaves it
\* false; and, every call settling, isLoading true leads to isLoading false.
C20_BusyFlagLifecycle ==
    /\ [][(request'.op # "none"
             \/ BagCardinality(resolutions') > BagCardinality(resolutions))
          => isLoading' = TRUE]_vars
    /\ [][(settled'.status # "none"
             \/ BagCardinality(calls') < BagCardinality(calls))
          => isLoading' = FALSE]_vars
    /\ (isLoading = TRUE) ~> (isLoading = FALSE)

\* a save has just been rejected while a resolution is in flight: the spinner is off
C20_Witness ==
    /\ failure.source = "handleSaveObjectConfigs"
    /\ isLoading = FALSE
    /\ resolutions # EmptyBag

\* C21: in every state in which a fetch or a persist call that a handler started
\* has not settled, isLoading is true.
C21_BusyCoversInFlight ==
    (resolutions # EmptyBag \/ calls # EmptyBag) => isLoading = TRUE

\* C22: every row of the mappings handed to saveFieldMappings has the sObjectName
\* and the systemApiName that the call is given as its context.
C22_RowsSavedUnderOwnContext ==
    request.op = "saveFieldMappings" =>
       \A i \in 1..Len(request.args.mappings) :
          /\ request.args.mappings[i].sObjectName = request.args.sObjectName
          /\ request.args.mappings[i].systemApiName = request.args.systemApiName

====
